---- MODULE Spec2Model ----
(***************************************************************************)
(* Message-forwarding bot (src/main.py): the users / admins / stats tables *)
(* of class Database, the policy checks of MessageForwardingBot and the    *)
(* handlers registered in register_handlers.                               *)
(*                                                                         *)
(* Time is counted in seconds.  A nullable column is a sequence of length  *)
(* at most one: <<>> is SQL NULL / Python None, <<v>> is the value v.      *)
(* The display columns (username, first_name, last_name) and created_at /  *)
(* updated_at decide no branch of the code and are left out of a row.      *)
(***************************************************************************)
EXTENDS Integers, Sequences, FiniteSets, TLC

\* ------------------------------------------------------------ configuration
OWNER_ID == 989062605
RATE_LIMIT_MINUTES == 10
MAX_BAN_HOURS == 720
SecondsPerMinute == 60
SecondsPerHour == 3600

\* ------------------------------------------------------------------ bounds
\* Identities other than the owner that write to the bot.
Peers == {555, 777}
Ids == {OWNER_ID} \cup Peers
\* Inbound non-command messages over a run of Spec, handled one at a time.
MaxMessages == 2
\* Inbound non-command messages over a run of SpecRelay; their handler tasks
\* may all be in flight together.
MaxRelayed == 2
\* Commands over a run.
MaxCommands == 2
\* Calls of a policy function over a run of SpecPolicy.
MaxCalls == 2
\* The clock moves forward through a finite list of instants: the start,
\* half a minute before the rate-limit window closes, the instant it closes,
\* the expiry of a one-hour ban issued at the start, and instants after it.
NumInstants == 5
HalfMinute == SecondsPerMinute \div 2

Instant(i) ==
    CASE i = 1 -> 0
      [] i = 2 -> RATE_LIMIT_MINUTES * SecondsPerMinute - HalfMinute
      [] i = 3 -> RATE_LIMIT_MINUTES * SecondsPerMinute
      [] OTHER -> SecondsPerHour + (i - 4) * HalfMinute

Instants == {Instant(i) : i \in 1..NumInstants}

VARIABLES
    now,      \* the wall clock, seconds
    users,    \* table users: user_id -> row, for the ids that have a row
    admins,   \* table admins: the user_ids that have a row (is_active is never set FALSE)
    stats,    \* table stats, row id = 1
    tasks,    \* handle_user_message: slot -> the task's locals and position
    lastCmd,  \* the last command handled: its input and the reply given
    ncmds,    \* commands handled so far
    ret,      \* the last direct call of a policy function and what it returned
    proc      \* run() and shutdown(): where they stand, what was closed

vars == <<now, users, admins, stats, tasks, lastCmd, ncmds, ret, proc>>

\* ---------------------------------------------------------------- nullable
NULL == <<>>
Some(v) == <<v>>
IsNull(o) == o = <<>>
Val(o) == o[1]

\* ---------------------------------------------------------------- datetime
\* A Python datetime: seconds and whether it carries a tzinfo.
\* datetime.now(timezone.utc)
utcnow(t) == [sec |-> t, tzinfo |-> TRUE]
\* A value read from a TIMESTAMP (without time zone) column is offset-naive.
from_column(v) == [sec |-> v, tzinfo |-> FALSE]
\* d.replace(tzinfo=timezone.utc)
replace_utc(d) == [d EXCEPT !.tzinfo = TRUE]
\* a - b and a > b raise TypeError when one is naive and the other aware.
mixed(a, b) == a.tzinfo # b.tzinfo

\* int(x / d) for the float x / d: truncation toward zero.
int_div(x, d) == IF x >= 0 THEN x \div d ELSE -((-x) \div d)

\* ------------------------------------------------------------ class Database
\* A row as INSERT INTO users (user_id, ...) leaves it: the column defaults.
new_user_row ==
    [ last_message_time |-> NULL,
      is_banned         |-> FALSE,
      ban_until         |-> NULL,
      ban_reason        |-> NULL,
      messages_sent     |-> 0 ]

get_user(us, uid) == IF uid \in DOMAIN us THEN Some(us[uid]) ELSE NULL

\* save_user as a bug would have it: the row is written anew for a user who
\* has one.
save_user_replaces_row(us, uid, nkwargs) ==
    [raised |-> FALSE,
     users  |-> [u \in DOMAIN us \cup {uid} |->
                    IF u = uid THEN new_user_row ELSE us[u]]]

\* save_user(user_id, **kwargs): UPDATE of the given columns when the row
\* exists, INSERT otherwise.  With no kwargs the UPDATE reads
\* "UPDATE users SET , updated_at = ..." and the database rejects it.
save_user(us, uid, nkwargs) ==
    IF uid \in DOMAIN us
    THEN [raised |-> nkwargs = 0, users |-> us]
    ELSE [raised |-> FALSE,
          users  |-> [u \in DOMAIN us \cup {uid} |->
                         IF u = uid THEN new_user_row ELSE us[u]]]

update_user_stats(us, uid) ==
    IF uid \in DOMAIN us
    THEN [us EXCEPT ![uid].messages_sent = @ + 1]
    ELSE us

\* update_user_last_message(user_id, message_time): message_time is
\* datetime.now(timezone.utc), offset-aware, bound to a TIMESTAMP column.
\* accepts: whether the driver takes an aware value for that column (asyncpg
\* raises DataError) or stores its UTC wall time.
update_user_last_message(us, uid, d, accepts) ==
    IF d.tzinfo /\ ~accepts
    THEN [raised |-> TRUE, users |-> us]
    ELSE [raised |-> FALSE,
          users  |-> IF uid \in DOMAIN us
                     THEN [us EXCEPT ![uid].last_message_time = Some(d.sec)]
                     ELSE us]

\* ban_user(user_id, reason, ban_until): ban_until is None or offset-aware.
ban_user(us, uid, reason, until, accepts) ==
    IF ~IsNull(until) /\ Val(until).tzinfo /\ ~accepts
    THEN [raised |-> TRUE, users |-> us]
    ELSE [raised |-> FALSE,
          users  |-> IF uid \in DOMAIN us
                     THEN [us EXCEPT ![uid].is_banned = TRUE,
                                     ![uid].ban_reason = Some(reason),
                                     ![uid].ban_until =
                                         IF IsNull(until) THEN NULL
                                         ELSE Some(Val(until).sec)]
                     ELSE us]

\* unban_user as a bug would have it: ban_reason is not set to NULL.
unban_user_keeps_reason(us, uid) ==
    IF uid \in DOMAIN us
    THEN [us EXCEPT ![uid].is_banned = FALSE,
                    ![uid].ban_until = NULL]
    ELSE us

unban_user(us, uid) ==
    IF uid \in DOMAIN us
    THEN [us EXCEPT ![uid].is_banned = FALSE,
                    ![uid].ban_reason = NULL,
                    ![uid].ban_until = NULL]
    ELSE us

\* add_admin: the INSERT violates the foreign key admins.user_id ->
\* users.user_id when the target has no row; the exception is caught and
\* False returned.
add_admin(ad, us, uid) ==
    IF uid \in DOMAIN us
    THEN [ok |-> TRUE, admins |-> ad \cup {uid}]
    ELSE [ok |-> FALSE, admins |-> ad]

remove_admin(ad, uid) ==
    IF uid = OWNER_ID
    THEN [ok |-> FALSE, admins |-> ad]
    ELSE [ok |-> TRUE, admins |-> ad \ {uid}]

get_admins(ad) == ad

is_admin(ad, uid) == uid = OWNER_ID \/ uid \in ad

update_stats(st, column, n) == [st EXCEPT ![column] = @ + n]

\* check_ban_status as a bug would have it: the ban ends at ban_until, not
\* after it.
check_ban_status_inclusive(us, uid, t) ==
    LET user_data == get_user(us, uid) IN
    IF IsNull(user_data) \/ ~Val(user_data).is_banned
    THEN [banned |-> FALSE, info |-> "", users |-> us]
    ELSE LET ban_until == Val(user_data).ban_until IN
         IF ~IsNull(ban_until)
            /\ utcnow(t).sec >= replace_utc(from_column(Val(ban_until))).sec
         THEN [banned |-> FALSE, info |-> "", users |-> unban_user(us, uid)]
         ELSE IF ~IsNull(ban_until)
              THEN [banned |-> TRUE, info |-> "until", users |-> us]
              ELSE [banned |-> TRUE, info |-> "forever", users |-> us]

\* ------------------------------------------------- MessageForwardingBot
\* check_ban_status(user_id) at time t: what it returns and the table after.
check_ban_status(us, uid, t) ==
    LET user_data == get_user(us, uid) IN
    IF IsNull(user_data) \/ ~Val(user_data).is_banned
    THEN [banned |-> FALSE, info |-> "", users |-> us]
    ELSE LET ban_until == Val(user_data).ban_until IN
         IF ~IsNull(ban_until)
            /\ utcnow(t).sec > replace_utc(from_column(Val(ban_until))).sec
         THEN [banned |-> FALSE, info |-> "", users |-> unban_user(us, uid)]
         ELSE IF ~IsNull(ban_until)
              THEN [banned |-> TRUE, info |-> "until", users |-> us]
              ELSE [banned |-> TRUE, info |-> "forever", users |-> us]

\* check_rate_limit(user_id) at time t.
check_rate_limit(us, uid, t) ==
    LET user_data == get_user(us, uid) IN
    IF IsNull(user_data) \/ IsNull(Val(user_data).last_message_time)
    THEN [raised |-> FALSE, can_send |-> TRUE, remaining |-> 0]
    ELSE LET read == from_column(Val(Val(user_data).last_message_time))
             last_time == IF read.tzinfo THEN replace_utc(read) ELSE read
             seconds == utcnow(t).sec - last_time.sec
         IN  IF mixed(utcnow(t), last_time)
             THEN [raised |-> TRUE, can_send |-> FALSE, remaining |-> 0]
             ELSE IF seconds < RATE_LIMIT_MINUTES * SecondsPerMinute
                  THEN [raised |-> FALSE, can_send |-> FALSE,
                        remaining |-> RATE_LIMIT_MINUTES
                                      - int_div(seconds, SecondsPerMinute)]
                  ELSE [raised |-> FALSE, can_send |-> TRUE, remaining |-> 0]

\* ------------------------------------------------ handle_user_message
\* A task of handle_user_message.  Each action below is the code between
\* two points where the task yields to the event loop.
Messages == 1..MaxRelayed

idle_task ==
    [ pc            |-> "idle",
      sender        |-> OWNER_ID,
      dests         |-> {},      \* admins, as read by get_admins()
      todo          |-> {},      \* destinations the for loop has not reached
      delivered     |-> {},      \* destinations whose send did not raise
      success_count |-> 0,
      reply         |-> "none",  \* what message.answer sent to the sender
      notified      |-> {},      \* admins notify_admins tried to tell of the error
      accepted_at   |-> NULL ]   \* when the loop ended with success_count > 0

\* The task has returned (pc "done") or an exception left the handler
\* (pc "crashed"); the locals of the relay loop are gone.
ended(task, pc, reply, at) ==
    [idle_task EXCEPT !.pc = pc,
                      !.sender = task.sender,
                      !.success_count = task.success_count,
                      !.reply = reply,
                      !.accepted_at = at]

Busy(m) == tasks[m].pc \notin {"idle", "done", "crashed"}
InFlight == Cardinality({m \in Messages : Busy(m)})

\* Lines 684-690: total_messages += 1, then the sender's row is upserted.
\* The new task takes the first slot that holds no running task.
Receive(m, u) ==
    /\ ~Busy(m)
    /\ \A k \in 1..(m - 1) : Busy(k)
    /\ stats' = update_stats(stats, "total_messages", 1)
    /\ users' = save_user(users, u, 3).users
    /\ tasks' = [tasks EXCEPT ![m] = [idle_task EXCEPT !.pc = "ban_check",
                                                       !.sender = u]]
    /\ UNCHANGED <<now, admins, lastCmd, ncmds, ret, proc>>

\* Lines 692-700 as a bug would have it: the ban reply is not returned, and
\* the handler goes on.
BanCheck_falls_through(m) ==
    /\ tasks[m].pc = "ban_check"
    /\ LET r == check_ban_status(users, tasks[m].sender, now) IN
       /\ users' = r.users
       /\ tasks' = [tasks EXCEPT ![m].pc = "rate_check"]
    /\ UNCHANGED <<now, admins, stats, lastCmd, ncmds, ret, proc>>

\* Lines 692-700.
BanCheck(m) ==
    /\ tasks[m].pc = "ban_check"
    /\ LET r == check_ban_status(users, tasks[m].sender, now) IN
       /\ users' = r.users
       /\ tasks' = IF r.banned
                   THEN [tasks EXCEPT ![m] = ended(@, "done", "banned", NULL)]
                   ELSE [tasks EXCEPT ![m].pc = "rate_check"]
    /\ UNCHANGED <<now, admins, stats, lastCmd, ncmds, ret, proc>>

\* Lines 702-711 as a bug would have it: the rate limit is checked for
\* admins too.
RateCheck_for_all(m) ==
    /\ tasks[m].pc = "rate_check"
    /\ LET u == tasks[m].sender
           r == check_rate_limit(users, u, now)
       IN  IF r.raised
           THEN /\ tasks' = [tasks EXCEPT ![m] = ended(@, "crashed", "none", NULL)]
                /\ stats' = stats
           ELSE IF ~r.can_send
           THEN /\ stats' = update_stats(stats, "rate_limit_blocks", 1)
                /\ tasks' = [tasks EXCEPT ![m] = ended(@, "done", "rate_limited", NULL)]
           ELSE /\ tasks' = [tasks EXCEPT ![m].pc = "prepare"]
                /\ stats' = stats
    /\ UNCHANGED <<now, users, admins, lastCmd, ncmds, ret, proc>>

\* Lines 702-711.  An exception of check_rate_limit is raised before the
\* try of line 713: it leaves the handler, and nothing is answered.
RateCheck(m) ==
    /\ tasks[m].pc = "rate_check"
    /\ LET u == tasks[m].sender
           r == check_rate_limit(users, u, now)
       IN  IF is_admin(admins, u)
           THEN /\ tasks' = [tasks EXCEPT ![m].pc = "prepare"]
                /\ stats' = stats
           ELSE IF r.raised
           THEN /\ tasks' = [tasks EXCEPT ![m] = ended(@, "crashed", "none", NULL)]
                /\ stats' = stats
           ELSE IF ~r.can_send
           THEN /\ stats' = update_stats(stats, "rate_limit_blocks", 1)
                /\ tasks' = [tasks EXCEPT ![m] = ended(@, "done", "rate_limited", NULL)]
           ELSE /\ tasks' = [tasks EXCEPT ![m].pc = "prepare"]
                /\ stats' = stats
    /\ UNCHANGED <<now, users, admins, lastCmd, ncmds, ret, proc>>

\* Lines 713-741: the caption, the admin list, success_count = 0.
Prepare(m) ==
    /\ tasks[m].pc = "prepare"
    /\ tasks' = [tasks EXCEPT ![m].pc = "send",
                              ![m].dests = get_admins(admins),
                              ![m].todo = get_admins(admins),
                              ![m].success_count = 0]
    /\ UNCHANGED <<now, users, admins, stats, lastCmd, ncmds, ret, proc>>

\* The rows of get_admins() come in the order of the key.
first_of(S) == CHOOSE a \in S : \A b \in S : a <= b

\* Lines 742-747: one turn of the for loop; the send raises (ok FALSE) or not.
Send(m, ok) ==
    /\ tasks[m].pc = "send"
    /\ tasks[m].todo # {}
    /\ LET a == first_of(tasks[m].todo) IN
       tasks' = [tasks EXCEPT
                    ![m].todo = @ \ {a},
                    ![m].delivered = IF ok THEN @ \cup {a} ELSE @,
                    ![m].success_count = IF ok THEN @ + 1 ELSE @]
    /\ UNCHANGED <<now, users, admins, stats, lastCmd, ncmds, ret, proc>>

\* Lines 749-787 as a bug would have it: success_count = 0 is not taken as
\* a failure.
Finish_zero_is_success(m, accepts) ==
    /\ tasks[m].pc = "send"
    /\ tasks[m].todo = {}
    /\ LET u  == tasks[m].sender
           w  == update_user_last_message(users, u, utcnow(now), accepts)
           at == IF tasks[m].success_count > 0 THEN Some(now) ELSE NULL
       IN  IF ~w.raised
           THEN /\ users' = update_user_stats(w.users, u)
                /\ stats' = update_stats(stats, "successful_forwards",
                                          tasks[m].success_count)
                /\ tasks' = [tasks EXCEPT ![m] = ended(@, "done", "success", at)]
           ELSE /\ users' = users
                /\ stats' = update_stats(stats, "failed_forwards", 1)
                /\ tasks' = [tasks EXCEPT ![m] = ended(@, "done", "failure", at)]
    /\ UNCHANGED <<now, admins, lastCmd, ncmds, ret, proc>>

\* Lines 749-787 as a bug would have it: last_message_time is written also
\* when no send succeeded.
Finish_stamps_failures(m, accepts) ==
    /\ tasks[m].pc = "send"
    /\ tasks[m].todo = {}
    /\ LET u  == tasks[m].sender
           w  == update_user_last_message(users, u, utcnow(now), accepts)
           at == IF tasks[m].success_count > 0 THEN Some(now) ELSE NULL
       IN  IF tasks[m].success_count > 0 /\ ~w.raised
           THEN /\ users' = update_user_stats(w.users, u)
                /\ stats' = update_stats(stats, "successful_forwards",
                                          tasks[m].success_count)
                /\ tasks' = [tasks EXCEPT ![m] = ended(@, "done", "success", at)]
           ELSE /\ users' = w.users
                /\ stats' = update_stats(stats, "failed_forwards", 1)
                /\ tasks' = [tasks EXCEPT ![m] =
                                [ended(@, "done", "failure", at)
                                    EXCEPT !.notified = get_admins(admins)]]
    /\ UNCHANGED <<now, admins, lastCmd, ncmds, ret, proc>>

\* Lines 749-787, after the loop.  With success_count > 0 the three updates
\* and the success answer; an exception in them, or success_count = 0,
\* enters the except branch: failed_forwards += 1, the failure answer, and
\* notify_admins, which tries every admin of get_admins().
Finish(m, accepts) ==
    /\ tasks[m].pc = "send"
    /\ tasks[m].todo = {}
    /\ LET u  == tasks[m].sender
           w  == update_user_last_message(users, u, utcnow(now), accepts)
           at == IF tasks[m].success_count > 0 THEN Some(now) ELSE NULL
       IN  IF tasks[m].success_count > 0 /\ ~w.raised
           THEN /\ users' = update_user_stats(w.users, u)
                /\ stats' = update_stats(stats, "successful_forwards",
                                          tasks[m].success_count)
                /\ tasks' = [tasks EXCEPT ![m] = ended(@, "done", "success", at)]
           ELSE /\ users' = users
                /\ stats' = update_stats(stats, "failed_forwards", 1)
                /\ tasks' = [tasks EXCEPT ![m] =
                                [ended(@, "done", "failure", at)
                                    EXCEPT !.notified = get_admins(admins)]]
    /\ UNCHANGED <<now, admins, lastCmd, ncmds, ret, proc>>

\* The clock moves to a later instant of S.
Tick(S) ==
    /\ \E t \in S : t > now /\ now' = t
    /\ UNCHANGED <<users, admins, stats, tasks, lastCmd, ncmds, ret, proc>>

\* ----------------------------------------------------------- commands
\* message.text.split(): a token is a word or a string of digits.
W(s) == [word |-> s, isdigit |-> FALSE, int |-> 0]
N(n) == [word |-> "", isdigit |-> TRUE, int |-> n]

\* Hours given to /ban: zero, the least and the greatest allowed, one more.
BanHours == {0, 1, MAX_BAN_HOURS, MAX_BAN_HOURS + 1}

\* What may follow "/ban".
BanArgs ==
    {<<N(555)>>, <<W("abc"), W("Spam")>>}
    \cup {<<N(p), W("Spam")>> : p \in Ids}
    \cup {<<N(p), N(24)>> : p \in Peers}
    \cup {<<N(p), W("Spam"), N(h)>> : p \in Ids, h \in BanHours}

\* What may follow "/unban".
UnbanArgs == {<<>>, <<W("abc")>>} \cup {<<N(p)>> : p \in Ids}

\* What may follow "/admin".
AdminArgs ==
    {<<>>, <<W("list")>>, <<W("add")>>, <<W("add"), W("abc")>>,
     <<W("promote"), N(777)>>}
    \cup {<<W(a), N(p)>> : a \in {"add", "remove"}, p \in Ids}

no_cmd == [kind |-> "none", caller |-> OWNER_ID, args |-> <<>>, reply |-> "none"]

\* The command is logged with the reply message.answer gave ("none": the
\* handler returned without answering).
Logged(kind, caller, args, reply) ==
    /\ ncmds < MaxCommands
    /\ ncmds' = ncmds + 1
    /\ lastCmd' = [kind |-> kind, caller |-> caller, args |-> args, reply |-> reply]

\* Lines 485-486 of cmd_ban.
has_hours(args) == Len(args) > 2 /\ args[Len(args)].isdigit
ban_reason_of(args) ==
    IF has_hours(args) THEN SubSeq(args, 2, Len(args) - 1)
    ELSE SubSeq(args, 2, Len(args))
ban_hours_of(args) ==
    IF has_hours(args) THEN Some(args[Len(args)].int) ELSE NULL
\* "if hours": None and 0 are both false.
truthy(hours) == ~IsNull(hours) /\ Val(hours) # 0
\* Line 488.
hours_rejected(hours) ==
    truthy(hours) /\ (Val(hours) <= 0 \/ Val(hours) > MAX_BAN_HOURS)
\* Line 506.
ban_until_of(hours, t) ==
    IF truthy(hours)
    THEN Some([sec |-> t + Val(hours) * SecondsPerHour, tzinfo |-> TRUE])
    ELSE NULL

\* cmd_ban, lines 485-549: the target is known and is no admin.
\* chat_ok: bot.get_chat(peer_id) did not raise.  An exception of the two
\* database calls is caught at line 548 and answered as an error.
ban_apply(caller, args, chat_ok, accepts) ==
    LET peer   == args[1].int
        hours  == ban_hours_of(args)
        saved  == save_user(users, peer, IF chat_ok THEN 3 ELSE 0)
        banned == ban_user(saved.users, peer, ban_reason_of(args),
                           ban_until_of(hours, now), accepts)
    IN  IF hours_rejected(hours)
        THEN Logged("ban", caller, args, "bad_hours") /\ UNCHANGED <<users, stats>>
        ELSE IF saved.raised
        THEN Logged("ban", caller, args, "error") /\ UNCHANGED <<users, stats>>
        ELSE IF banned.raised
        THEN /\ Logged("ban", caller, args, "error")
             /\ users' = saved.users
             /\ stats' = stats
        ELSE /\ Logged("ban", caller, args, "banned")
             /\ users' = banned.users
             /\ stats' = update_stats(stats, "bans_issued", 1)

\* cmd_ban, lines 467-483, as a bug would have it: no check of the target.
ban_parse_no_immunity(caller, args, chat_ok, accepts) ==
    IF Len(args) < 2
    THEN Logged("ban", caller, args, "usage") /\ UNCHANGED <<users, stats>>
    ELSE IF ~args[1].isdigit
    THEN Logged("ban", caller, args, "bad_peer_id") /\ UNCHANGED <<users, stats>>
    ELSE ban_apply(caller, args, chat_ok, accepts)

\* cmd_ban, lines 467-483: the arguments, the target, the admin check.
ban_parse(caller, args, chat_ok, accepts) ==
    IF Len(args) < 2
    THEN Logged("ban", caller, args, "usage") /\ UNCHANGED <<users, stats>>
    ELSE IF ~args[1].isdigit
    THEN Logged("ban", caller, args, "bad_peer_id") /\ UNCHANGED <<users, stats>>
    ELSE IF is_admin(admins, args[1].int)
    THEN Logged("ban", caller, args, "admin_immune") /\ UNCHANGED <<users, stats>>
    ELSE ban_apply(caller, args, chat_ok, accepts)

\* cmd_ban as a bug would have it: the caller is not checked.
cmd_ban_ungated(caller, args, chat_ok, accepts) ==
    /\ UNCHANGED <<now, admins, tasks, ret, proc>>
    /\ ban_parse(caller, args, chat_ok, accepts)

\* cmd_ban, lines 462-549.
cmd_ban(caller, args, chat_ok, accepts) ==
    /\ UNCHANGED <<now, admins, tasks, ret, proc>>
    /\ IF ~is_admin(admins, caller)
       THEN Logged("ban", caller, args, "no_rights") /\ UNCHANGED <<users, stats>>
       ELSE ban_parse(caller, args, chat_ok, accepts)

\* cmd_unban, lines 551-595.
cmd_unban(caller, args) ==
    /\ UNCHANGED <<now, admins, stats, tasks, ret, proc>>
    /\ IF ~is_admin(admins, caller)
       THEN Logged("unban", caller, args, "no_rights") /\ users' = users
       ELSE IF Len(args) < 1
       THEN Logged("unban", caller, args, "usage") /\ users' = users
       ELSE IF ~args[1].isdigit
       THEN Logged("unban", caller, args, "bad_peer_id") /\ users' = users
       ELSE LET user_data == get_user(users, args[1].int) IN
            IF ~IsNull(user_data) /\ Val(user_data).is_banned
            THEN /\ Logged("unban", caller, args, "unbanned")
                 /\ users' = unban_user(users, args[1].int)
            ELSE Logged("unban", caller, args, "not_banned") /\ users' = users

\* cmd_admin, lines 395-432: /admin add ID.
\* chat_ok: bot.get_chat(target_id) did not raise.
admin_add(caller, args, chat_ok) ==
    LET target == args[2].int
        saved  == IF chat_ok THEN save_user(users, target, 3).users ELSE users
        added  == add_admin(admins, saved, target)
    IN  IF target = OWNER_ID
        THEN Logged("admin", caller, args, "owner_already")
             /\ UNCHANGED <<users, admins>>
        ELSE /\ users' = saved
             /\ admins' = added.admins
             /\ Logged("admin", caller, args,
                       IF added.ok THEN "admin_added" ELSE "add_failed")

\* Lines 434-444 as a bug would have it: the check of line 435 left out.
admin_remove_unchecked(caller, args) ==
    LET gone == remove_admin(admins, args[2].int) IN
    /\ users' = users
    /\ admins' = gone.admins
    /\ Logged("admin", caller, args,
              IF gone.ok THEN "admin_removed" ELSE "remove_failed")

\* cmd_admin, lines 434-444: /admin remove ID.
admin_remove(caller, args) ==
    LET gone == remove_admin(admins, args[2].int) IN
    IF args[2].int = OWNER_ID
    THEN Logged("admin", caller, args, "owner_protected")
         /\ UNCHANGED <<users, admins>>
    ELSE /\ users' = users
         /\ admins' = gone.admins
         /\ Logged("admin", caller, args,
                   IF gone.ok THEN "admin_removed" ELSE "remove_failed")

\* cmd_admin, lines 373-460.
cmd_admin(caller, args, chat_ok) ==
    /\ UNCHANGED <<now, stats, tasks, ret, proc>>
    /\ IF ~is_admin(admins, caller)
       THEN Logged("admin", caller, args, "no_rights") /\ UNCHANGED <<users, admins>>
       ELSE IF Len(args) = 0
       THEN Logged("admin", caller, args, "admin_usage") /\ UNCHANGED <<users, admins>>
       ELSE IF Len(args) = 1
       THEN /\ Logged("admin", caller, args,
                      IF args[1].word = "list" THEN "admin_list" ELSE "none")
            /\ UNCHANGED <<users, admins>>
       ELSE IF ~args[2].isdigit
       THEN Logged("admin", caller, args, "bad_id") /\ UNCHANGED <<users, admins>>
       ELSE IF args[1].word = "add"
       THEN admin_add(caller, args, chat_ok)
       ELSE IF args[1].word = "remove"
       THEN admin_remove(caller, args)
       ELSE Logged("admin", caller, args, "none") /\ UNCHANGED <<users, admins>>

\* cmd_stats, lines 597-631.
cmd_stats(caller) ==
    /\ Logged("stats", caller, <<>>,
              IF is_admin(admins, caller) THEN "stats" ELSE "none")
    /\ UNCHANGED <<now, users, admins, stats, tasks, ret, proc>>

\* cmd_users, lines 633-652.
cmd_users(caller) ==
    /\ Logged("users", caller, <<>>,
              IF ~is_admin(admins, caller) THEN "none"
              ELSE IF DOMAIN users = {} THEN "no_users" ELSE "user_list")
    /\ UNCHANGED <<now, users, admins, stats, tasks, ret, proc>>

\* cmd_help, lines 654-680.
cmd_help(caller) ==
    /\ Logged("help", caller, <<>>,
              IF is_admin(admins, caller) THEN "admin_help" ELSE "user_help")
    /\ UNCHANGED <<now, users, admins, stats, tasks, ret, proc>>

\* cmd_start, lines 351-371.
cmd_start(caller) ==
    /\ Logged("start", caller, <<>>, "welcome")
    /\ users' = save_user(users, caller, 3).users
    /\ UNCHANGED <<now, admins, stats, tasks, ret, proc>>

\* ------------------------------------------------------ the bot at work
zero_stats ==
    [ total_messages      |-> 0,
      successful_forwards |-> 0,
      failed_forwards     |-> 0,
      bans_issued         |-> 0,
      rate_limit_blocks   |-> 0 ]

\* cleared: the call ran unban_user; after_clear: the call before it did.
no_call ==
    [ fn |-> "none", n |-> 0, uid |-> OWNER_ID, banned |-> FALSE,
      cleared |-> FALSE, after_clear |-> FALSE,
      raised |-> FALSE, can_send |-> FALSE, remaining |-> 0 ]

\* run() is inside dp.start_polling (line 906) and no signal has come.
serving ==
    [ is_running |-> TRUE,      \* self.is_running
      polling    |-> TRUE,      \* updates are taken in
      run_pc     |-> "polling", \* run(): loop, polling, close_session,
                                \*   close_pool, cleanup, exited
      sd_pc      |-> "none",    \* shutdown(): none, stop_polling,
                                \*   close_session, close_pool, done
      released   |-> <<>> ]     \* the close() calls made, in their order

\* The database when run() starts polling.  init_db has inserted the owner
\* into admins, which the foreign key allows only with the owner's row in
\* users.

InitUsers == { [u \in {OWNER_ID} |-> new_user_row] }

\* The start as a bug would have it: init_db does not insert the owner into
\* admins (lines 86-91 left out).
Init_without_owner_admin ==
    /\ now = Instant(1)
    /\ users \in InitUsers
    /\ admins = {}
    /\ stats = zero_stats
    /\ tasks = [m \in Messages |-> idle_task]
    /\ lastCmd = no_cmd
    /\ ncmds = 0
    /\ ret = no_call
    /\ proc = serving

Init ==
    /\ now = Instant(1)
    /\ users \in InitUsers
    /\ admins = {OWNER_ID}
    /\ stats = zero_stats
    /\ tasks = [m \in Messages |-> idle_task]
    /\ lastCmd = no_cmd
    /\ ncmds = 0
    /\ ret = no_call
    /\ proc = serving

\* The whole bot.  Commands come from the owner, name 555 or try to remove
\* the owner, and fall between any two steps of a message task; messages
\* are taken one at a time; the clock is seen at the start and after the
\* expiry of a one-hour ban.
CoarseInstants == {Instant(1), Instant(NumInstants)}
SomeBanArgs == {<<N(555), W("Spam")>>, <<N(555), W("Spam"), N(1)>>}
SomeUnbanArgs == {<<N(555)>>}
SomeAdminArgs ==
    {<<W("add"), N(555)>>, <<W("remove"), N(555)>>, <<W("remove"), N(OWNER_ID)>>}

Next ==
    \/ \E m \in Messages, u \in Ids :
          InFlight = 0 /\ stats.total_messages < MaxMessages /\ Receive(m, u)
    \/ \E m \in Messages : BanCheck(m)
    \/ \E m \in Messages : RateCheck(m)
    \/ \E m \in Messages : Prepare(m)
    \/ \E m \in Messages, ok \in BOOLEAN : Send(m, ok)
    \/ \E m \in Messages, accepts \in BOOLEAN : Finish(m, accepts)
    \/ Tick(CoarseInstants)
    \/ \E args \in SomeBanArgs, chat_ok \in BOOLEAN, accepts \in BOOLEAN :
          cmd_ban(OWNER_ID, args, chat_ok, accepts)
    \/ \E args \in SomeUnbanArgs : cmd_unban(OWNER_ID, args)
    \/ \E args \in SomeAdminArgs, chat_ok \in BOOLEAN :
          cmd_admin(OWNER_ID, args, chat_ok)

Spec == Init /\ [][Next]_vars

\* The message handlers alone, all tasks free to interleave.  The tables
\* outlive the process (CREATE TABLE IF NOT EXISTS): SpecRelay starts from the
\* databases that commands and earlier messages leave behind, where 555 has
\* no row, a row that holds the time of its last message, or a banned row.
known_user_row == [new_user_row EXCEPT !.last_message_time = Some(Instant(1)),
                                       !.messages_sent = 1]
timed_ban_row ==
    [new_user_row EXCEPT !.is_banned = TRUE,
                         !.ban_until = Some(Instant(1) + SecondsPerHour),
                         !.ban_reason = Some(<<W("Spam")>>)]
forever_ban_row ==
    [new_user_row EXCEPT !.is_banned = TRUE,
                         !.ban_reason = Some(<<W("Spam")>>)]

RelayUsers ==
    { [u \in {OWNER_ID, 777} |-> new_user_row] }
    \cup { [u \in Ids |-> IF u = 555 THEN r ELSE new_user_row] :
             r \in {known_user_row, timed_ban_row, forever_ban_row} }

\* The clock at the start, at the expiry of a one-hour ban and after it.
RelayInstants == {Instant(1)} \cup {Instant(i) : i \in 4..NumInstants}

InitRelay ==
    /\ now = Instant(1)
    /\ users \in RelayUsers
    /\ admins \in {{OWNER_ID}, {OWNER_ID, 777}}
    /\ stats = zero_stats
    /\ tasks = [m \in Messages |-> idle_task]
    /\ lastCmd = no_cmd
    /\ ncmds = 0
    /\ ret = no_call
    /\ proc = serving

NextRelay ==
    \/ \E m \in Messages, u \in Ids :
          stats.total_messages < MaxRelayed /\ Receive(m, u)
    \/ \E m \in Messages : BanCheck(m)
    \/ \E m \in Messages : RateCheck(m)
    \/ \E m \in Messages : Prepare(m)
    \/ \E m \in Messages, ok \in BOOLEAN : Send(m, ok)
    \/ \E m \in Messages, accepts \in BOOLEAN : Finish(m, accepts)
    \/ Tick(RelayInstants)

SpecRelay == InitRelay /\ [][NextRelay]_vars

\* The command handlers alone, with every caller and every argument list.
NextCmd ==
    \/ Tick(CoarseInstants)
    \/ \E c \in Ids, args \in BanArgs, chat_ok \in BOOLEAN, accepts \in BOOLEAN :
          cmd_ban(c, args, chat_ok, accepts)
    \/ \E c \in Ids, args \in UnbanArgs : cmd_unban(c, args)
    \/ \E c \in Ids, args \in AdminArgs, chat_ok \in BOOLEAN :
          cmd_admin(c, args, chat_ok)
    \/ \E c \in Ids : cmd_stats(c)
    \/ \E c \in Ids : cmd_users(c)
    \/ \E c \in Ids : cmd_help(c)
    \/ \E c \in Ids : cmd_start(c)

SpecCmd == Init /\ [][NextCmd]_vars

\* The two policy functions, called on every row and at every instant.
PolicyRows ==
    { [ last_message_time |-> l, is_banned |-> b.is_banned,
        ban_until |-> b.ban_until, ban_reason |-> b.ban_reason,
        messages_sent |-> 0 ] :
        l \in {NULL} \cup {Some(t) : t \in Instants},
        b \in {new_user_row, forever_ban_row}
              \cup {[forever_ban_row EXCEPT !.ban_until = Some(t)] : t \in Instants} }

InitPolicy ==
    /\ now \in Instants
    /\ users \in {<<>>} \cup {[u \in {555} |-> r] : r \in PolicyRows}
    /\ admins = {OWNER_ID}
    /\ stats = zero_stats
    /\ tasks = [m \in Messages |-> idle_task]
    /\ lastCmd = no_cmd
    /\ ncmds = 0
    /\ ret = no_call
    /\ proc = serving

CallCheckBanStatus(uid) ==
    /\ ret.n < MaxCalls
    /\ LET r == check_ban_status(users, uid, now) IN
       /\ users' = r.users
       /\ ret' = [no_call EXCEPT !.fn = "check_ban_status", !.n = ret.n + 1,
                                 !.uid = uid, !.banned = r.banned,
                                 !.cleared = (r.users # users),
                                 !.after_clear = ret.cleared]
    /\ UNCHANGED <<now, admins, stats, tasks, lastCmd, ncmds, proc>>

CallCheckRateLimit(uid) ==
    /\ ret.n < MaxCalls
    /\ LET r == check_rate_limit(users, uid, now) IN
       ret' = [no_call EXCEPT !.fn = "check_rate_limit", !.n = ret.n + 1,
                              !.uid = uid, !.raised = r.raised,
                              !.can_send = r.can_send,
                              !.remaining = r.remaining]
    /\ UNCHANGED <<now, users, admins, stats, tasks, lastCmd, ncmds, proc>>

NextPolicy ==
    \/ CallCheckBanStatus(555)
    \/ CallCheckRateLimit(555)
    \/ Tick(Instants)

SpecPolicy == InitPolicy /\ [][NextPolicy]_vars

\* ---------------------------------------------------------------- claims
\* A command handler has run: it is logged as lastCmd'.
CmdStep(kind) == ncmds' = ncmds + 1 /\ lastCmd'.kind = kind
Rows == DOMAIN users

\* C1: every run of handle_user_message that ends has answered the sender.
\* The formula states the claim; SpecRelay violates it.
C1_EveryMessageAnswered ==
    \A m \in Messages :
        tasks[m].pc \in {"done", "crashed"} => tasks[m].reply # "none"

\* C2: a row with is_banned false has ban_until and ban_reason NULL.
C2_UnbannedRowIsCleared ==
    \A u \in Rows :
        ~users[u].is_banned =>
            IsNull(users[u].ban_until) /\ IsNull(users[u].ban_reason)

\* C2, its case: 555 was banned, and /unban has cleared the row.
C2_Witness ==
    /\ lastCmd.kind = "unban"
    /\ lastCmd.reply = "unbanned"
    /\ 555 \in Rows
    /\ ~users[555].is_banned

\* C3: when the loop over the admins ends with K sends that did not raise,
\* success_count is K, successful_forwards grows by K, and failed_forwards
\* grows only when K = 0, whatever the steps after the loop do.
\* The formula states the claim; SpecRelay violates it.
C3_CountsFollowSends ==
    [][\A m \in Messages :
          (tasks[m].pc = "send" /\ tasks[m].todo = {} /\ tasks'[m].pc = "done")
          => LET K == Cardinality(tasks[m].delivered) IN
             /\ tasks[m].success_count = K
             /\ stats'.successful_forwards = stats.successful_forwards + K
             /\ (stats'.failed_forwards # stats.failed_forwards => K = 0)]_vars

\* The commands of the admin menu.
AdminCommands == {"ban", "unban", "admin", "stats", "users", "help"}
UnauthorizedStep ==
    /\ ncmds' = ncmds + 1
    /\ lastCmd'.kind \in AdminCommands
    /\ ~is_admin(admins, lastCmd'.caller)

trailing_number(args) == Len(args) >= 2 /\ args[Len(args)].isdigit
BanByAdminStep ==
    /\ CmdStep("ban")
    /\ is_admin(admins, lastCmd'.caller)
    /\ Len(lastCmd'.args) >= 2
    /\ lastCmd'.args[1].isdigit

\* C5: /ban by an admin against a non-admin: hours outside 1..MAX_BAN_HOURS,
\* zero among them, are rejected and nothing changes; a ban without end is
\* made only when no number ends the command.
\* The formula states the claim; SpecCmd violates it.
C5_HoursOutOfRangeRejected ==
    [][(BanByAdminStep /\ ~is_admin(admins, lastCmd'.args[1].int)) =>
          LET args == lastCmd'.args
              peer == args[1].int
          IN  /\ (has_hours(args)
                  /\ args[Len(args)].int \notin 1..MAX_BAN_HOURS)
                 => /\ lastCmd'.reply = "bad_hours"
                    /\ UNCHANGED <<users, admins, stats>>
              /\ (lastCmd'.reply = "banned" /\ IsNull(users'[peer].ban_until))
                 => ~trailing_number(args)]_vars

RemoveOwnerStep ==
    /\ CmdStep("admin")
    /\ Len(lastCmd'.args) = 2
    /\ lastCmd'.args[1].word = "remove"
    /\ lastCmd'.args[2].isdigit
    /\ lastCmd'.args[2].int = OWNER_ID

\* C6: the owner is an admin in every state, and "/admin remove OWNER_ID"
\* fails for every caller: an admin is answered that the owner is
\* protected, and the admins stay as they were.
C6_OwnerStaysAdmin ==
    [][/\ is_admin(admins, OWNER_ID)
       /\ is_admin(admins', OWNER_ID)
       /\ RemoveOwnerStep =>
             /\ admins' = admins
             /\ is_admin(admins, lastCmd'.caller)
                => lastCmd'.reply = "owner_protected"]_vars

\* C6, its case: an admin has tried to remove the owner.
C6_Witness ==
    /\ lastCmd.kind = "admin"
    /\ lastCmd.args = <<W("remove"), N(OWNER_ID)>>
    /\ is_admin(admins, lastCmd.caller)
    /\ lastCmd.reply = "owner_protected"

\* C7: two messages of one non-admin sender that were both relayed (at
\* least one send did not raise) are RATE_LIMIT_MINUTES or more apart.
\* The formula states the claim; SpecRelay violates it.
C7_AcceptedMessagesApart ==
    \A m1, m2 \in Messages :
        (/\ m1 # m2
         /\ tasks[m1].sender = tasks[m2].sender
         /\ ~is_admin(admins, tasks[m1].sender)
         /\ ~IsNull(tasks[m1].accepted_at)
         /\ ~IsNull(tasks[m2].accepted_at)
         /\ Val(tasks[m1].accepted_at) <= Val(tasks[m2].accepted_at))
        => Val(tasks[m2].accepted_at) - Val(tasks[m1].accepted_at)
              >= RATE_LIMIT_MINUTES * SecondsPerMinute

BanStatusCall == ret'.n = ret.n + 1 /\ ret'.fn = "check_ban_status"

\* C8: check_ban_status on a banned row: with ban_until before now it
\* returns not banned and clears the three ban columns, and a second call
\* returns not banned and leaves the cleared row as it is; with now at or
\* before ban_until, or ban_until NULL, it returns banned and leaves the
\* row unchanged.
C8_BanExpiry ==
    [][(BanStatusCall /\ ret'.uid \in Rows) =>
          LET uid == ret'.uid
              row == users[uid]
          IN  /\ (row.is_banned /\ ~IsNull(row.ban_until)
                    /\ Val(row.ban_until) < now)
                 => /\ ~ret'.banned
                    /\ users' = [users EXCEPT ![uid].is_banned = FALSE,
                                              ![uid].ban_until = NULL,
                                              ![uid].ban_reason = NULL]
              /\ (row.is_banned /\ (IsNull(row.ban_until)
                                    \/ now <= Val(row.ban_until)))
                 => ret'.banned /\ users' = users
              /\ (ret.cleared /\ ret.uid = uid)
                 => /\ ~ret'.banned
                    /\ users' = users
                    /\ ~row.is_banned
                    /\ IsNull(row.ban_until) /\ IsNull(row.ban_reason)]_vars

\* C8, its case: a call has cleared an expired ban, and the call after it
\* has found the row not banned.
C8_Witness ==
    /\ ret.fn = "check_ban_status"
    /\ ret.after_clear
    /\ ~ret.banned
    /\ ~users[ret.uid].is_banned

\* The rate limit as the claim defines it, in seconds.
reference_rate_limit(us, uid, t) ==
    IF uid \notin DOMAIN us \/ IsNull(us[uid].last_message_time)
    THEN <<TRUE, 0>>
    ELSE LET elapsed == t - Val(us[uid].last_message_time) IN
         IF elapsed >= RATE_LIMIT_MINUTES * SecondsPerMinute
         THEN <<TRUE, 0>>
         ELSE <<FALSE, RATE_LIMIT_MINUTES - (elapsed \div SecondsPerMinute)>>

\* C9: check_rate_limit returns what the reference gives, for every row and
\* every time.  The formula states the claim; SpecPolicy violates it.
C9_RateLimitAsReference ==
    [][(ret'.n = ret.n + 1 /\ ret'.fn = "check_rate_limit") =>
          /\ ~ret'.raised
          /\ <<ret'.can_send, ret'.remaining>>
                = reference_rate_limit(users, ret'.uid, now)]_vars

\* C10: /ban by an admin against an admin is refused: the answer is that
\* admins cannot be banned, the target's row stays as it was, and
\* bans_issued does not grow.
C10_AdminImmune ==
    [][(BanByAdminStep /\ is_admin(admins, lastCmd'.args[1].int)) =>
          /\ lastCmd'.reply = "admin_immune"
          /\ users' = users
          /\ stats'.bans_issued = stats.bans_issued]_vars

\* C10, its case: 777 was made an admin, and an admin has tried to ban 777.
C10_Witness ==
    /\ lastCmd.kind = "ban"
    /\ lastCmd.args[1] = N(777)
    /\ 777 \in admins
    /\ lastCmd.reply = "admin_immune"

AdminEditStep(action) ==
    /\ CmdStep("admin")
    /\ is_admin(admins, lastCmd'.caller)
    /\ Len(lastCmd'.args) = 2
    /\ lastCmd'.args[1].word = action
    /\ lastCmd'.args[2].isdigit
    /\ lastCmd'.args[2].int # OWNER_ID

\* C11: for every target T other than the owner, after "/admin add T" by an
\* admin T is an admin, whether or not T had a users row or an admins row
\* before; after "/admin remove T" T is no admin; the owner is an admin
\* before and after both.
\* The formula states the claim; SpecCmd violates it.
C11_AddThenRemove ==
    [][/\ AdminEditStep("add") => is_admin(admins', lastCmd'.args[2].int)
       /\ AdminEditStep("remove") => ~is_admin(admins', lastCmd'.args[2].int)
       /\ is_admin(admins, OWNER_ID) /\ is_admin(admins', OWNER_ID)]_vars

TimedBanStep ==
    /\ BanByAdminStep
    /\ ~is_admin(admins, lastCmd'.args[1].int)
    /\ has_hours(lastCmd'.args)
    /\ lastCmd'.args[Len(lastCmd'.args)].int \in 1..MAX_BAN_HOURS

\* C12: after "/ban T reason H" by an admin, 1 <= H <= MAX_BAN_HOURS, against
\* a non-admin T, the row of T is banned with ban_until = now + H hours and
\* the reason; a message of T whose ban check runs while now <= ban_until
\* ends with the ban reply and no send; the ban check of the first message
\* after ban_until clears the ban and the task goes on to the rate check.
\* The formula states the claim; Spec violates it.
C12_TimedBan ==
    [][/\ TimedBanStep =>
             LET args == lastCmd'.args
                 peer == args[1].int
             IN  /\ peer \in DOMAIN users'
                 /\ users'[peer].is_banned
                 /\ users'[peer].ban_until =
                       Some(now + args[Len(args)].int * SecondsPerHour)
                 /\ users'[peer].ban_reason = Some(ban_reason_of(args))
       /\ \A m \in Messages :
             (/\ tasks[m].pc = "ban_check"
              /\ tasks'[m] # tasks[m]
              /\ users[tasks[m].sender].is_banned
              /\ ~IsNull(users[tasks[m].sender].ban_until))
             => LET u == tasks[m].sender IN
                IF now <= Val(users[u].ban_until)
                THEN /\ tasks'[m].pc = "done"
                     /\ tasks'[m].reply = "banned"
                     /\ tasks'[m].success_count = 0
                     /\ users' = users
                ELSE /\ tasks'[m].pc = "rate_check"
                     /\ ~users'[u].is_banned]_vars

\* C13: a message whose sender is an admin is never stopped at the rate
\* check: whatever last_message_time the sender has, the task goes from the
\* rate check on to the relay and rate_limit_blocks stays as it was.
C13_AdminsSkipRateLimit ==
    [][\A m \in Messages :
          (/\ tasks[m].pc = "rate_check"
           /\ tasks'[m] # tasks[m]
           /\ is_admin(admins, tasks[m].sender))
          => /\ tasks'[m].pc = "prepare"
             /\ tasks'[m].reply = "none"
             /\ stats'.rate_limit_blocks = stats.rate_limit_blocks]_vars

\* C13, its case: an admin who has a last_message_time stored has passed the
\* rate check.
C13_Witness ==
    \E m \in Messages :
        /\ tasks[m].pc = "prepare"
        /\ is_admin(admins, tasks[m].sender)
        /\ ~IsNull(users[tasks[m].sender].last_message_time)

\* C14: the steps of one message come in the order: total_messages counted,
\* ban check, rate check, sends, reply.  A message stopped at the ban check
\* reaches neither the rate check nor a send, and rate_limit_blocks stays as
\* it was; a message stopped at the rate check reaches no send.
C14_StepOrder ==
    [][\A m \in Messages :
          tasks'[m] # tasks[m] =>
             LET t  == tasks[m]
                 t2 == tasks'[m]
             IN  /\ (t2.delivered # t.delivered /\ t2.delivered # {})
                    => t.pc = "send"
                 /\ CASE t.pc = "ban_check" ->
                           /\ t.dests = {} /\ t.delivered = {}
                           /\ IF check_ban_status(users, t.sender, now).banned
                              THEN /\ t2.pc = "done"
                                   /\ t2.reply = "banned"
                                   /\ t2.delivered = {}
                                   /\ stats' = stats
                              ELSE t2.pc = "rate_check" /\ t2.reply = "none"
                      [] t.pc = "rate_check" ->
                           /\ t.dests = {} /\ t.delivered = {}
                           /\ t2.pc \in {"prepare", "done", "crashed"}
                           /\ t2.pc # "prepare"
                              => /\ t2.delivered = {}
                                 /\ t2.success_count = 0
                                 /\ t2.reply \in {"rate_limited", "none"}
                      [] t.pc = "prepare" ->
                           t2.pc = "send" /\ t2.reply = "none"
                      [] t.pc = "send" ->
                           /\ t2.pc \in {"send", "done"}
                           /\ t2.pc = "send" => t2.reply = "none"
                           /\ t2.pc = "done" => t2.reply \in {"success", "failure"}
                      [] OTHER ->
                           /\ t2.pc = "ban_check"
                           /\ t2.reply = "none"
                           /\ stats'.total_messages = stats.total_messages + 1]_vars

\* C14, its case: a message was counted and then stopped at the ban check.
C14_Witness ==
    \E m \in Messages :
        /\ tasks[m].pc = "done"
        /\ tasks[m].reply = "banned"
        /\ stats.total_messages >= 1
        /\ stats.rate_limit_blocks = 0
        /\ stats.successful_forwards = 0 /\ stats.failed_forwards = 0

\* C15: in the relay of one message every admin of the list is tried: a send
\* that raises leaves the later admins to be tried, the task ends only when
\* none is left, and with a send that raised and a send that did not the
\* sender gets the success reply.
\* The formula states the claim; SpecRelay violates it.
C15_EveryAdminTried ==
    [][\A m \in Messages :
          (tasks[m].pc = "send" /\ tasks'[m] # tasks[m]) =>
             LET t  == tasks[m]
                 t2 == tasks'[m]
             IN  IF t2.pc = "send"
                 THEN /\ t2.todo = t.todo \ {first_of(t.todo)}
                      /\ t2.dests = t.dests
                      /\ t2.reply = "none"
                 ELSE /\ t.todo = {}
                      /\ t.delivered \subseteq t.dests
                      /\ (t.delivered # {} /\ t.delivered # t.dests)
                         => t2.reply = "success"]_vars

\* C16: when the loop over the admins ends with no send that succeeded,
\* failed_forwards grows by 1, successful_forwards stays, the sender gets
\* the failure reply, and notify_admins tries every admin.
C16_ZeroDeliveriesFail ==
    [][\A m \in Messages :
          (/\ tasks[m].pc = "send"
           /\ tasks'[m].pc = "done"
           /\ tasks[m].success_count = 0)
          => /\ tasks[m].delivered = {}
             /\ stats'.failed_forwards = stats.failed_forwards + 1
             /\ stats'.successful_forwards = stats.successful_forwards
             /\ tasks'[m].reply = "failure"
             /\ tasks'[m].notified = get_admins(admins)
             /\ OWNER_ID \in tasks'[m].notified]_vars

\* C16, its case: every send of a message raised, and the task has ended.
C16_Witness ==
    \E m \in Messages :
        /\ tasks[m].pc = "done"
        /\ tasks[m].success_count = 0
        /\ tasks[m].reply = "failure"
        /\ tasks[m].notified # {}
        /\ stats.failed_forwards >= 1

\* C17: the first message of a user who is not banned, relayed to K >= 1
\* admins: total_messages has grown by 1 when it was received, and when the
\* handling ends successful_forwards has grown by K, the sender's
\* messages_sent is 1, last_message_time is the time of the handling, and
\* the sender gets the success reply.
\* The formula states the claim; Spec violates it.
C17_FirstMessage ==
    [][\A m \in Messages :
          (/\ tasks[m].pc = "send"
           /\ tasks'[m].pc = "done"
           /\ tasks[m].success_count >= 1
           /\ users[tasks[m].sender].messages_sent = 0
           /\ IsNull(users[tasks[m].sender].last_message_time))
          => LET u == tasks[m].sender IN
             /\ stats.total_messages >= 1
             /\ stats'.total_messages = stats.total_messages
             /\ stats'.successful_forwards
                   = stats.successful_forwards + tasks[m].success_count
             /\ users'[u].messages_sent = 1
             /\ users'[u].last_message_time = Some(now)
             /\ tasks'[m].reply = "success"]_vars

Counters ==
    {"total_messages", "successful_forwards", "failed_forwards",
     "bans_issued", "rate_limit_blocks"}

\* C18: no step lowers a counter of stats or the messages_sent of a user, and
\* no step removes a user's row.
C18_CountersGrow ==
    [][/\ \A c \in Counters : stats'[c] >= stats[c]
       /\ \A u \in DOMAIN users :
             /\ u \in DOMAIN users'
             /\ users'[u].messages_sent >= users[u].messages_sent]_vars

\* C18, its case: a user whose message was counted is heard of again, by a
\* second message or by a command.
C18_Witness ==
    /\ \E u \in DOMAIN users : users[u].messages_sent >= 1
    /\ stats.successful_forwards >= 1
    /\ stats.total_messages + ncmds >= 2

\* C20: no user for whom is_admin holds has is_banned set, after any ban,
\* unban, admin add and admin remove; the owner's row is never banned.
\* The formula states the claim; SpecCmd violates it.
C20_NoBannedAdmin ==
    \A u \in DOMAIN users : is_admin(admins, u) => ~users[u].is_banned

\* ------------------------------------------------- run() and shutdown()
Closed(resource) == \E i \in 1..Len(proc.released) : proc.released[i] = resource
Exited == proc.run_pc = "exited"

\* Lines 889-892 and 878-881: SIGTERM or SIGINT creates the task shutdown(),
\* which clears is_running and calls dp.stop_polling().
Signal ==
    /\ proc.sd_pc = "none"
    /\ ~Exited
    /\ proc' = [proc EXCEPT !.is_running = FALSE, !.sd_pc = "stop_polling"]
    /\ UNCHANGED <<now, users, admins, stats, tasks, lastCmd, ncmds, ret>>

\* Line 881: stop_polling ends the polling, and start_polling returns in
\* run().  With no polling going on the call returns or raises (raised
\* TRUE), and an exception ends shutdown().
StopPolling(raised) ==
    /\ proc.sd_pc = "stop_polling"
    /\ ~Exited
    /\ IF proc.polling
       THEN /\ ~raised
            /\ proc' = [proc EXCEPT !.polling = FALSE, !.run_pc = "loop",
                                    !.sd_pc = "close_session"]
       ELSE proc' = [proc EXCEPT !.sd_pc = IF raised THEN "done"
                                           ELSE "close_session"]
    /\ UNCHANGED <<now, users, admins, stats, tasks, lastCmd, ncmds, ret>>

\* Line 883: await self.bot.session.close().
ShutdownClosesSession ==
    /\ proc.sd_pc = "close_session"
    /\ ~Exited
    /\ proc' = [proc EXCEPT !.released = Append(@, "session"),
                            !.sd_pc = "close_pool"]
    /\ UNCHANGED <<now, users, admins, stats, tasks, lastCmd, ncmds, ret>>

\* Line 884 and lines 271-274: await self.db.close(); self.pool stays set.
ShutdownClosesPool ==
    /\ proc.sd_pc = "close_pool"
    /\ ~Exited
    /\ proc' = [proc EXCEPT !.released = Append(@, "pool"), !.sd_pc = "done"]
    /\ UNCHANGED <<now, users, admins, stats, tasks, lastCmd, ncmds, ret>>

\* Lines 904-913: while self.is_running: start_polling; after the loop the
\* finally of line 916.
RunLoop ==
    /\ proc.run_pc = "loop"
    /\ proc' = IF proc.is_running
               THEN [proc EXCEPT !.run_pc = "polling", !.polling = TRUE]
               ELSE [proc EXCEPT !.run_pc = "close_session"]
    /\ UNCHANGED <<now, users, admins, stats, tasks, lastCmd, ncmds, ret>>

\* Lines 906-913: start_polling returns or raises by itself; run() is back
\* at the test of the loop (after the sleep of line 911, or by the break).
PollingEnds ==
    /\ proc.run_pc = "polling"
    /\ proc' = [proc EXCEPT !.run_pc = "loop", !.polling = FALSE]
    /\ UNCHANGED <<now, users, admins, stats, tasks, lastCmd, ncmds, ret>>

\* Line 917: await self.bot.session.close().
RunClosesSession ==
    /\ proc.run_pc = "close_session"
    /\ proc' = [proc EXCEPT !.released = Append(@, "session"),
                            !.run_pc = "close_pool"]
    /\ UNCHANGED <<now, users, admins, stats, tasks, lastCmd, ncmds, ret>>

\* Line 918: await self.db.close().
RunClosesPool ==
    /\ proc.run_pc = "close_pool"
    /\ proc' = [proc EXCEPT !.released = Append(@, "pool"),
                            !.run_pc = "cleanup"]
    /\ UNCHANGED <<now, users, admins, stats, tasks, lastCmd, ncmds, ret>>

\* Line 919, then run_bot() returns and asyncio.run (line 947) cancels the
\* tasks that are left.
RunExits ==
    /\ proc.run_pc = "cleanup"
    /\ proc' = [proc EXCEPT !.run_pc = "exited"]
    /\ UNCHANGED <<now, users, admins, stats, tasks, lastCmd, ncmds, ret>>

\* A task calls the database after the pool was closed: the call raises.
\* Before the try of line 713 the exception leaves the handler; inside it
\* the except of line 762 calls update_stats, which raises again.
Interrupted(m) ==
    /\ Busy(m)
    /\ Closed("pool")
    /\ tasks[m].pc = "send" => tasks[m].todo = {}
    /\ tasks' = [tasks EXCEPT ![m] = ended(@, "crashed", "none", NULL)]
    /\ UNCHANGED <<now, users, admins, stats, lastCmd, ncmds, ret, proc>>

\* Lines 749-770 with the pool open and the session closed: the database is
\* updated, message.answer raises, the except of line 762 counts a failure,
\* and its message.answer raises again.
FinishUnanswered(m, accepts) ==
    /\ tasks[m].pc = "send"
    /\ tasks[m].todo = {}
    /\ ~Closed("pool")
    /\ Closed("session")
    /\ LET u  == tasks[m].sender
           w  == update_user_last_message(users, u, utcnow(now), accepts)
           ok == tasks[m].success_count > 0 /\ ~w.raised
       IN  /\ users' = IF ok THEN update_user_stats(w.users, u) ELSE users
           /\ stats' = update_stats(
                          IF ok THEN update_stats(stats, "successful_forwards",
                                                  tasks[m].success_count)
                          ELSE stats,
                          "failed_forwards", 1)
    /\ tasks' = [tasks EXCEPT ![m] = ended(@, "crashed", "none", NULL)]
    /\ UNCHANGED <<now, admins, lastCmd, ncmds, ret, proc>>

\* run() has reached the loop of line 904.
InitShutdown ==
    /\ now = Instant(1)
    /\ users \in InitUsers
    /\ admins = {OWNER_ID}
    /\ stats = zero_stats
    /\ tasks = [m \in Messages |-> idle_task]
    /\ lastCmd = no_cmd
    /\ ncmds = 0
    /\ ret = no_call
    /\ proc = [serving EXCEPT !.polling = FALSE, !.run_pc = "loop"]

\* The process from the start of polling to its exit.  Updates are taken
\* in while polling goes on; nothing in run() or shutdown() waits for the
\* tasks of the handlers, which run on until the process exits.
NextShutdown ==
    \/ \E m \in Messages, u \in Peers :
          /\ proc.polling
          /\ InFlight = 0
          /\ stats.total_messages < MaxMessages
          /\ Receive(m, u)
    \/ \E m \in Messages : ~Exited /\ ~Closed("pool") /\ BanCheck(m)
    \/ \E m \in Messages : ~Exited /\ ~Closed("pool") /\ RateCheck(m)
    \/ \E m \in Messages : ~Exited /\ ~Closed("pool") /\ Prepare(m)
    \/ \E m \in Messages, ok \in BOOLEAN :
          ~Exited /\ (ok => ~Closed("session")) /\ Send(m, ok)
    \/ \E m \in Messages, accepts \in BOOLEAN :
          ~Exited /\ ~Closed("pool") /\ ~Closed("session") /\ Finish(m, accepts)
    \/ \E m \in Messages, accepts \in BOOLEAN :
          ~Exited /\ FinishUnanswered(m, accepts)
    \/ \E m \in Messages : ~Exited /\ Interrupted(m)
    \/ Signal
    \/ \E raised \in BOOLEAN : StopPolling(raised)
    \/ ShutdownClosesSession
    \/ ShutdownClosesPool
    \/ RunLoop
    \/ PollingEnds
    \/ RunClosesSession
    \/ RunClosesPool
    \/ RunExits

SpecShutdown == InitShutdown /\ [][NextShutdown]_vars

IsPrefix(s, t) == Len(s) <= Len(t) /\ s = SubSeq(t, 1, Len(s))

\* C19: at shutdown the polling is stopped before the pool and the session
\* are closed, the pool is closed before the session, each is closed once,
\* and no task of handle_user_message uses either after it was closed.
\* The formula states the claim; SpecShutdown violates it.
C19_ShutdownOrder ==
    [][/\ proc'.released # <<>> => ~proc'.polling
       /\ IsPrefix(proc'.released, <<"pool", "session">>)
       /\ \A m \in Messages :
             tasks'[m] # tasks[m] => proc.released = <<>>]_vars

\* The ban of u is in force: without end, or with ban_until not yet passed.
ban_in_force(us, u, t) ==
    /\ u \in DOMAIN us
    /\ us[u].is_banned
    /\ IsNull(us[u].ban_until) \/ t <= Val(us[u].ban_until)

\* C21: no message is delivered to an admin while its sender's ban is in
\* force, however /ban falls between the steps of the task.
\* The formula states the claim; Spec violates it.
C21_NoDeliveryWhileBanned ==
    [][\A m \in Messages :
          (/\ tasks[m].pc = "send"
           /\ tasks'[m].pc = "send"
           /\ tasks'[m].delivered # tasks[m].delivered)
          => ~ban_in_force(users, tasks[m].sender, now)]_vars

\* What the claim watches of the row of u; a user without a row has sent
\* nothing.
window_of(us, u) ==
    IF u \in DOMAIN us
    THEN <<us[u].last_message_time, us[u].messages_sent>>
    ELSE <<NULL, 0>>

\* C22: a step of a message task that is not its success leaves the
\* sender's last_message_time and messages_sent as they were: a message
\* rejected for a ban, stopped at the rate check, or relayed to no admin
\* does not restart the sender's window.
C22_RejectedLeavesWindow ==
    [][\A m \in Messages :
          (tasks'[m] # tasks[m] /\ tasks'[m].reply # "success")
          => window_of(users', tasks'[m].sender)
                = window_of(users, tasks'[m].sender)]_vars

\* C22, its case: the sender has a last_message_time from an earlier
\* message, and a later message of that sender was relayed to no admin.
C22_Witness ==
    \E m \in Messages :
        /\ tasks[m].pc = "done"
        /\ tasks[m].reply = "failure"
        /\ tasks[m].success_count = 0
        /\ users[tasks[m].sender].messages_sent = 1
        /\ ~IsNull(users[tasks[m].sender].last_message_time)
        /\ Val(users[tasks[m].sender].last_message_time) < now

\* C23: the admins that get_admins returns are the users for whom is_admin
\* holds; the owner is among them, and every relay has the owner among its
\* destinations.
C23_DestinationsAreAdmins ==
    /\ get_admins(admins) = {u \in Ids : is_admin(admins, u)}
    /\ OWNER_ID \in get_admins(admins)
    /\ \A m \in Messages : tasks[m].pc = "send" => OWNER_ID \in tasks[m].dests

\* C23, its case: an admin tried to remove the owner, 555 is an admin too,
\* and a message is relayed to both.
C23_Witness ==
    /\ lastCmd.kind = "admin"
    /\ lastCmd.args = <<W("remove"), N(OWNER_ID)>>
    /\ admins = {OWNER_ID, 555}
    /\ \E m \in Messages :
          tasks[m].pc = "send" /\ tasks[m].dests = {OWNER_ID, 555}

====
